---- MODULE Spec2Model ----
(***************************************************************************)
(* Model of app/operations.py: the ten arithmetic Operation variants and   *)
(* the OperationFactory registry.                                          *)
(*                                                                         *)
(* Operands are Decimals with FracDigits fractional digits; the operand    *)
(* n stands for the Decimal n / Scale.  Operation names are sequences of   *)
(* one-character strings so that str.lower() can be modelled character by  *)
(* character.  Exception messages are sequences of words.                  *)
(***************************************************************************)
EXTENDS Integers, Sequences, FiniteSets, TLC

VARIABLES operations, call, outcome

vars == <<operations, call, outcome>>

(***************************************************************************)
(* Bounds of the model.                                                    *)
(***************************************************************************)
FracDigits == 1
MaxN == 30
MaxSmall == 1
MaxCasePos == 2

MaxWide == 8

Scale == 10 ^ FracDigits
Operands == (0 - MaxN) .. MaxN
SmallOperands == {n * Scale : n \in 0 .. MaxSmall}

(***************************************************************************)
(* Strings as character sequences, str.lower() and str.upper().            *)
(***************************************************************************)
UpperLetters ==
  <<"A","B","C","D","E","F","G","H","I","J","K","L","M",
    "N","O","P","Q","R","S","T","U","V","W","X","Y","Z">>

LowerLetters ==
  <<"a","b","c","d","e","f","g","h","i","j","k","l","m",
    "n","o","p","q","r","s","t","u","v","w","x","y","z">>

LowerChar(c) ==
  IF \E i \in 1..Len(UpperLetters) : UpperLetters[i] = c
  THEN LowerLetters[CHOOSE i \in 1..Len(UpperLetters) : UpperLetters[i] = c]
  ELSE c

UpperChar(c) ==
  IF \E i \in 1..Len(LowerLetters) : LowerLetters[i] = c
  THEN UpperLetters[CHOOSE i \in 1..Len(LowerLetters) : LowerLetters[i] = c]
  ELSE c

Lower(s) == [i \in 1..Len(s) |-> LowerChar(s[i])]

Upper(s) == [i \in 1..Len(s) |-> UpperChar(s[i])]

(***************************************************************************)
(* The classes of the module, and the classes the tests pass to            *)
(* register_operation.                                                     *)
(***************************************************************************)
BuiltinClasses ==
  {"Addition", "Subtraction", "Multiplication", "Division", "Power", "Root",
   "Modulus", "IntegerDivision", "Percentage", "AbsoluteDifference"}

\* Operation is the abstract base class; NewOperation is a concrete subclass
\* whose execute returns its first operand; InvalidOperation is a plain class.
Classes == BuiltinClasses \cup {"Operation", "NewOperation", "InvalidOperation"}

IsSubclassOfOperation(c) == c \in BuiltinClasses \cup {"Operation", "NewOperation"}

\* Operation declares execute with @abstractmethod; every subclass here defines it.
IsAbstract(c) == c = "Operation"

ConcreteClasses == {c \in Classes : IsSubclassOfOperation(c) /\ ~IsAbstract(c)}

(***************************************************************************)
(* The keys of OperationFactory._operations.                               *)
(***************************************************************************)
KeyAdd == <<"a","d","d">>
KeySubtract == <<"s","u","b","t","r","a","c","t">>
KeyMultiply == <<"m","u","l","t","i","p","l","y">>
KeyDivide == <<"d","i","v","i","d","e">>
KeyPower == <<"p","o","w","e","r">>
KeyRoot == <<"r","o","o","t">>
KeyModulus == <<"m","o","d","u","l","u","s">>
KeyIntegerDivision ==
  <<"i","n","t","e","g","e","r","_","d","i","v","i","s","i","o","n">>
KeyPercentage == <<"p","e","r","c","e","n","t","a","g","e">>
KeyAbsoluteDifference ==
  <<"a","b","s","o","l","u","t","e","_","d","i","f","f","e","r","e","n","c","e">>

BuiltinTable ==
  { <<KeyAdd, "Addition">>, <<KeySubtract, "Subtraction">>,
    <<KeyMultiply, "Multiplication">>, <<KeyDivide, "Division">>,
    <<KeyPower, "Power">>, <<KeyRoot, "Root">>, <<KeyModulus, "Modulus">>,
    <<KeyIntegerDivision, "IntegerDivision">>,
    <<KeyPercentage, "Percentage">>,
    <<KeyAbsoluteDifference, "AbsoluteDifference">> }

BuiltinKeys == {p[1] : p \in BuiltinTable}

BuiltinClassOf(k) == (CHOOSE p \in BuiltinTable : p[1] = k)[2]

InitOperations == [k \in BuiltinKeys |-> BuiltinClassOf(k)]

(***************************************************************************)
(* Natural numbers of arbitrary size, as little-endian sequences of limbs  *)
(* in base LimbBase without leading zero limbs.  They carry the 53-bit     *)
(* significands of Python floats (IEEE binary64), which do not fit the     *)
(* machine integers of the model checker.                                  *)
(***************************************************************************)
LimbBits == 15
LimbBase == 2 ^ LimbBits

RECURSIVE BigNorm(_)
BigNorm(x) ==
  IF x = << >> THEN x
  ELSE IF x[Len(x)] = 0 THEN BigNorm(SubSeq(x, 1, Len(x) - 1)) ELSE x

RECURSIVE BigOfNat(_)
BigOfNat(n) ==
  IF n = 0 THEN << >> ELSE <<n % LimbBase>> \o BigOfNat(n \div LimbBase)

RECURSIVE BigMulCarry(_, _, _)
BigMulCarry(x, m, c) ==
  IF x = << >> THEN BigOfNat(c)
  ELSE LET t == x[1] * m + c
       IN  <<t % LimbBase>> \o BigMulCarry(Tail(x), m, t \div LimbBase)

\* x * m for 0 <= m < LimbBase
BigMulSmall(x, m) == BigNorm(BigMulCarry(x, m, 0))

\* quotient and remainder of x by d, for 0 < d < LimbBase
RECURSIVE BigDivRem(_, _)
BigDivRem(x, d) ==
  IF x = << >> THEN [q |-> << >>, r |-> 0]
  ELSE LET hi == BigDivRem(Tail(x), d)
           t == hi.r * LimbBase + x[1]
       IN  [q |-> BigNorm(<<t \div d>> \o hi.q), r |-> t % d]

RECURSIVE BigAddCarry(_, _, _)
BigAddCarry(x, y, c) ==
  IF x = << >> /\ y = << >> THEN BigOfNat(c)
  ELSE LET a == IF x = << >> THEN 0 ELSE x[1]
           b == IF y = << >> THEN 0 ELSE y[1]
           t == a + b + c
       IN  <<t % LimbBase>> \o
           BigAddCarry(IF x = << >> THEN x ELSE Tail(x),
                       IF y = << >> THEN y ELSE Tail(y), t \div LimbBase)

BigAdd(x, y) == BigNorm(BigAddCarry(x, y, 0))

\* x - y for x >= y
RECURSIVE BigSubBorrow(_, _, _)
BigSubBorrow(x, y, c) ==
  IF x = << >> THEN << >>
  ELSE LET b == IF y = << >> THEN 0 ELSE y[1]
           t == x[1] - b - c
       IN  <<IF t < 0 THEN t + LimbBase ELSE t>> \o
           BigSubBorrow(Tail(x), IF y = << >> THEN y ELSE Tail(y),
                        IF t < 0 THEN 1 ELSE 0)

BigSub(x, y) == BigNorm(BigSubBorrow(x, y, 0))

\* -1, 0 or 1 as x < y, x = y or x > y
RECURSIVE BigCmp(_, _)
BigCmp(x, y) ==
  IF Len(x) # Len(y) THEN (IF Len(x) < Len(y) THEN 0 - 1 ELSE 1)
  ELSE IF x = << >> THEN 0
  ELSE IF x[Len(x)] # y[Len(y)]
       THEN (IF x[Len(x)] < y[Len(y)] THEN 0 - 1 ELSE 1)
       ELSE BigCmp(SubSeq(x, 1, Len(x) - 1), SubSeq(y, 1, Len(y) - 1))

\* x * 2^s
BigShl(x, s) ==
  IF x = << >> THEN x
  ELSE BigMulSmall([i \in 1..(s \div LimbBits) |-> 0] \o x, 2 ^ (s % LimbBits))

\* floor(x / 2^s)
BigShr(x, s) ==
  IF Len(x) <= s \div LimbBits THEN << >>
  ELSE BigDivRem(SubSeq(x, (s \div LimbBits) + 1, Len(x)), 2 ^ (s % LimbBits)).q

RECURSIVE NatBitLen(_)
NatBitLen(n) == IF n = 0 THEN 0 ELSE 1 + NatBitLen(n \div 2)

BigBitLen(x) ==
  IF x = << >> THEN 0 ELSE LimbBits * (Len(x) - 1) + NatBitLen(x[Len(x)])

BigIsOdd(x) == x # << >> /\ x[1] % 2 = 1

\* quotient and remainder of x by y # 0, by binary long division from bit
\* position i downwards
RECURSIVE BigDivLoop(_, _, _, _)
BigDivLoop(r, y, i, q) ==
  IF i < 0 THEN [q |-> q, r |-> r]
  ELSE LET yi == BigShl(y, i)
       IN  IF BigCmp(r, yi) >= 0
           THEN BigDivLoop(BigSub(r, yi), y, i - 1, BigAdd(q, BigShl(<<1>>, i)))
           ELSE BigDivLoop(r, y, i - 1, q)

BigDivMod(x, y) ==
  BigDivLoop(x, y, IF BigBitLen(x) > BigBitLen(y)
                   THEN BigBitLen(x) - BigBitLen(y) ELSE 0, <<>>)

Abs(n) == IF n < 0 THEN 0 - n ELSE n

Sign(n) == IF n < 0 THEN 0 - 1 ELSE IF n = 0 THEN 0 ELSE 1

Min(a, b) == IF a < b THEN a ELSE b

(***************************************************************************)
(* Python floats.  A float is [s, m, e] with value s * m * 2^e, where s is *)
(* the sign (0 for zero) and a nonzero m has exactly MantBits bits.  The   *)
(* operands of the model stay far from the overflow and subnormal ranges;  *)
(* the sign of a zero is not recorded (Decimal equality ignores it).       *)
(***************************************************************************)
MantBits == 53
GuardBits == 64

FloatZero == [s |-> 0, m |-> << >>, e |-> 0]

\* The float nearest to sgn * (m + f) * 2^e, where 0 <= f < 1 and f > 0 iff
\* sticky: round to nearest, ties to even.
Round53(sgn, m, e, sticky) ==
  IF m = << >> THEN FloatZero
  ELSE
    LET len == BigBitLen(m)
    IN  IF len <= MantBits
        THEN [s |-> sgn, m |-> BigShl(m, MantBits - len), e |-> e - (MantBits - len)]
        ELSE
          LET d == len - MantBits
              q == BigShr(m, d)
              rem == BigSub(m, BigShl(q, d))
              half == BigShl(<<1>>, d - 1)
              c == BigCmp(rem, half)
              up == c > 0 \/ (c = 0 /\ (sticky \/ BigIsOdd(q)))
              r == IF up THEN BigAdd(q, <<1>>) ELSE q
          IN  IF BigBitLen(r) > MantBits
              THEN [s |-> sgn, m |-> BigShr(r, 1), e |-> e + d + 1]
              ELSE [s |-> sgn, m |-> r, e |-> e + d]

\* float(Decimal(n) / Scale): the correctly rounded conversion of the operand
FloatOfDecimal(n) ==
  IF n = 0 THEN FloatZero
  ELSE LET dr == BigDivRem(BigShl(BigOfNat(Abs(n)), GuardBits), Scale)
       IN  Round53(Sign(n), dr.q, 0 - GuardBits, dr.r # 0)

\* the integer operand Decimal(2^MantBits + j), the first integers that a float
\* cannot hold, and its conversion float(a)
WideInt(j) == BigAdd(BigShl(<<1>>, MantBits), BigOfNat(j))

FloatOfWide(j) == Round53(1, WideInt(j), 0, FALSE)

\* significands of x and y over their common exponent Min(x.e, y.e)
AlignedMant(x, y) == BigShl(x.m, x.e - Min(x.e, y.e))

FloatCmpAbs(x, y) == BigCmp(AlignedMant(x, y), AlignedMant(y, x))

\* x + y, rounded
FloatAdd(x, y) ==
  IF x.s = 0 THEN y
  ELSE IF y.s = 0 THEN x
  ELSE LET X == AlignedMant(x, y)
           Y == AlignedMant(y, x)
           e == Min(x.e, y.e)
       IN  IF x.s = y.s THEN Round53(x.s, BigAdd(X, Y), e, FALSE)
           ELSE IF BigCmp(X, Y) >= 0 THEN Round53(x.s, BigSub(X, Y), e, FALSE)
           ELSE Round53(y.s, BigSub(Y, X), e, FALSE)

\* trunc(|x| / |y|) and the C library fmod(x, y), which is exact and has the
\* sign of x
FloatTruncQuot(x, y) ==
  IF x.s = 0 THEN <<>> ELSE BigDivMod(AlignedMant(x, y), AlignedMant(y, x)).q

FloatFmod(x, y) ==
  IF x.s = 0 THEN FloatZero
  ELSE Round53(x.s, BigDivMod(AlignedMant(x, y), AlignedMant(y, x)).r,
               Min(x.e, y.e), FALSE)

\* x % y for y # 0: fmod, moved to the sign of the divisor
FloatRem(x, y) ==
  LET mod == FloatFmod(x, y)
  IN  IF mod.s # 0 /\ mod.s # y.s THEN FloatAdd(mod, y) ELSE mod

\* x // y for y # 0: (x - fmod) / y is an integer up to rounding, which the
\* final floor and its 0.5 correction remove; it is lowered by one when the
\* remainder had to be moved to the sign of the divisor
FloatFloorDiv(x, y) ==
  LET mod == FloatFmod(x, y)
      div == FloatTruncQuot(x, y)
  IN  Round53(x.s * y.s,
              IF mod.s # 0 /\ mod.s # y.s THEN BigAdd(div, <<1>>) ELSE div,
              0, FALSE)

\* the float holds an integer value
FloatIsInteger(x) ==
  x.s = 0 \/ x.e >= 0 \/ BigShl(BigShr(x.m, 0 - x.e), 0 - x.e) = x.m

\* Decimal(x) = num / den as exact numbers (den > 0)
FloatEqualsRatio(x, num, den) ==
  /\ x.s = Sign(num)
  /\ \/ x.s = 0
     \/ IF x.e < 0
        THEN BigMulSmall(x.m, den) = BigShl(BigOfNat(Abs(num)), 0 - x.e)
        ELSE BigShl(BigMulSmall(x.m, den), x.e) = BigOfNat(Abs(num))

\* -1, 0 or 1 as |x| < |num / den|, equal or greater (den > 0)
FloatCmpAbsRatio(x, num, den) ==
  IF x.s = 0 THEN (IF num = 0 THEN 0 ELSE 0 - 1)
  ELSE IF x.e < 0
       THEN BigCmp(BigMulSmall(x.m, den), BigShl(BigOfNat(Abs(num)), 0 - x.e))
       ELSE BigCmp(BigShl(BigMulSmall(x.m, den), x.e), BigOfNat(Abs(num)))

(***************************************************************************)
(* Calls and their outcomes.                                               *)
(***************************************************************************)
\* value kinds: "dec" is the exact Decimal num / den; "bin" is Decimal(f) for
\* the float f; "quotient" and "percentage" are the Decimal division of the
\* operands num and den at the context precision; "pow" and "root" are the
\* Decimal of the C library pow on the floats of the operands num and den.
NoValue == [kind |-> "none", num |-> 0, den |-> 1, f |-> FloatZero]

DecValue(num, den) == [kind |-> "dec", num |-> num, den |-> den, f |-> FloatZero]

BinValue(f) == [kind |-> "bin", num |-> 0, den |-> 1, f |-> f]

TermValue(kind, a, b) == [kind |-> kind, num |-> a, den |-> b, f |-> FloatZero]

Pending ==
  [status |-> "pending", exc |-> "", msg |-> << >>, value |-> NoValue, instance |-> ""]

Passed ==
  [status |-> "passed", exc |-> "", msg |-> << >>, value |-> NoValue, instance |-> ""]

Returned(v) ==
  [status |-> "returned", exc |-> "", msg |-> << >>, value |-> v, instance |-> ""]

ReturnedInstance(c) ==
  [status |-> "returned", exc |-> "", msg |-> << >>, value |-> NoValue, instance |-> c]

Raised(e, m) ==
  [status |-> "raised", exc |-> e, msg |-> m, value |-> NoValue, instance |-> ""]

NoCall == [op |-> "none", name |-> << >>, cls |-> "", a |-> 0, b |-> 0]

CallExecute(c, a, b) == [op |-> "execute", name |-> << >>, cls |-> c, a |-> a, b |-> b]

CallRegister(name, c) == [op |-> "register", name |-> name, cls |-> c, a |-> 0, b |-> 0]

CallCreate(name) == [op |-> "create", name |-> name, cls |-> "", a |-> 0, b |-> 0]

MsgDivisionByZero == <<"Division", "by", "zero", "is", "not", "allowed">>
MsgNegativeExponent == <<"Negative", "exponents", "not", "supported">>
MsgNegativeRoot == <<"Cannot", "calculate", "root", "of", "negative", "number">>
MsgZeroRoot == <<"Zero", "root", "is", "undefined">>
MsgMustInherit == <<"Operation", "class", "must", "inherit", "from", "Operation">>
MsgUnknown(name) == <<"Unknown", "operation:">> \o name
\* raised by the interpreter, not by the module
MsgComplex == <<"conversion", "from", "complex", "to", "Decimal", "is", "not", "supported">>
MsgZeroPower == <<"0.0", "cannot", "be", "raised", "to", "a", "negative", "power">>
MsgAbstract == <<"Can't", "instantiate", "abstract", "class">>

(***************************************************************************)
(* The Operation variants: validate_operands and execute of each class.    *)
(***************************************************************************)
\* variant: the base class rejects a zero second operand
OperationValidate_RejectsZero(a, b) ==
  IF b = 0 THEN Raised("ValidationError", MsgDivisionByZero) ELSE Passed

OperationValidate(a, b) == Passed

AdditionExecute(a, b) ==
  LET v == OperationValidate(a, b)
  IN  IF v.status = "raised" THEN v ELSE Returned(DecValue(a + b, Scale))

SubtractionExecute(a, b) ==
  LET v == OperationValidate(a, b)
  IN  IF v.status = "raised" THEN v ELSE Returned(DecValue(a - b, Scale))

MultiplicationExecute(a, b) ==
  LET v == OperationValidate(a, b)
  IN  IF v.status = "raised" THEN v ELSE Returned(DecValue(a * b, Scale * Scale))

DivisionValidate(a, b) ==
  LET v == OperationValidate(a, b)
  IN  IF v.status = "raised" THEN v
      ELSE IF b = 0 THEN Raised("ValidationError", MsgDivisionByZero)
      ELSE Passed

\* variant: the quotient is computed without validation, so that a zero
\* divisor raises the DivisionByZero of the decimal module
DivisionExecute_NoValidate(a, b) ==
  IF b = 0 THEN Raised("DivisionByZero", <<"decimal.DivisionByZero">>)
  ELSE Returned(TermValue("quotient", a, b))

DivisionExecute(a, b) ==
  LET v == DivisionValidate(a, b)
  IN  IF v.status = "raised" THEN v ELSE Returned(TermValue("quotient", a, b))

PowerValidate(a, b) ==
  LET v == OperationValidate(a, b)
  IN  IF v.status = "raised" THEN v
      ELSE IF b < 0 THEN Raised("ValidationError", MsgNegativeExponent)
      ELSE Passed

\* pow(float(a), float(b)) is a complex number for a negative base and a
\* non-integer exponent, and Decimal() does not accept a complex number
PowerExecute(a, b) ==
  LET v == PowerValidate(a, b)
  IN  IF v.status = "raised" THEN v
      ELSE IF FloatOfDecimal(a).s < 0 /\ ~FloatIsInteger(FloatOfDecimal(b))
      THEN Raised("TypeError", MsgComplex)
      ELSE Returned(TermValue("pow", a, b))

\* variant: the two checks in the other order
RootValidate_ZeroFirst(a, b) ==
  LET v == OperationValidate(a, b)
  IN  IF v.status = "raised" THEN v
      ELSE IF b = 0 THEN Raised("ValidationError", MsgZeroRoot)
      ELSE IF a < 0 THEN Raised("ValidationError", MsgNegativeRoot)
      ELSE Passed

RootValidate(a, b) ==
  LET v == OperationValidate(a, b)
  IN  IF v.status = "raised" THEN v
      ELSE IF a < 0 THEN Raised("ValidationError", MsgNegativeRoot)
      ELSE IF b = 0 THEN Raised("ValidationError", MsgZeroRoot)
      ELSE Passed

\* pow(float(a), 1 / float(b)): 1 / float(b) has the sign of b, and pow raises
\* ZeroDivisionError for a zero base and a negative exponent
RootExecute(a, b) ==
  LET v == RootValidate(a, b)
  IN  IF v.status = "raised" THEN v
      ELSE IF FloatOfDecimal(a).s = 0 /\ FloatOfDecimal(b).s < 0
      THEN Raised("ZeroDivisionError", MsgZeroPower)
      ELSE Returned(TermValue("root", a, b))

\* variant: the message the tests of Modulus expect
ModulusValidate_CannotDivide(a, b) ==
  LET v == OperationValidate(a, b)
  IN  IF v.status = "raised" THEN v
      ELSE IF b = 0
      THEN Raised("ValidationError", <<"Cannot", "divide", "by", "zero">>)
      ELSE Passed

ModulusValidate(a, b) ==
  LET v == OperationValidate(a, b)
  IN  IF v.status = "raised" THEN v
      ELSE IF b = 0 THEN Raised("ValidationError", MsgDivisionByZero)
      ELSE Passed

ModulusExecute(a, b) ==
  LET v == ModulusValidate(a, b)
  IN  IF v.status = "raised" THEN v
      ELSE Returned(BinValue(FloatRem(FloatOfDecimal(a), FloatOfDecimal(b))))

IntegerDivisionValidate(a, b) ==
  LET v == OperationValidate(a, b)
  IN  IF v.status = "raised" THEN v
      ELSE IF b = 0 THEN Raised("ValidationError", MsgDivisionByZero)
      ELSE Passed

IntegerDivisionExecute(a, b) ==
  LET v == IntegerDivisionValidate(a, b)
  IN  IF v.status = "raised" THEN v
      ELSE Returned(BinValue(FloatFloorDiv(FloatOfDecimal(a), FloatOfDecimal(b))))

\* Modulus.execute and IntegerDivision.execute on the operands
\* (Decimal(2^MantBits + j), Decimal(b) / Scale); validate_operands reads only
\* the divisor
ModulusExecuteWide(j, b) ==
  LET v == ModulusValidate(1, b)
  IN  IF v.status = "raised" THEN v
      ELSE Returned(BinValue(FloatRem(FloatOfWide(j), FloatOfDecimal(b))))

IntegerDivisionExecuteWide(j, b) ==
  LET v == IntegerDivisionValidate(1, b)
  IN  IF v.status = "raised" THEN v
      ELSE Returned(BinValue(FloatFloorDiv(FloatOfWide(j), FloatOfDecimal(b))))

PercentageValidate(a, b) ==
  LET v == OperationValidate(a, b)
  IN  IF v.status = "raised" THEN v
      ELSE IF b = 0 THEN Raised("ValidationError", MsgDivisionByZero)
      ELSE Passed

PercentageExecute(a, b) ==
  LET v == PercentageValidate(a, b)
  IN  IF v.status = "raised" THEN v ELSE Returned(TermValue("percentage", a, b))

\* variant: the difference without abs()
AbsoluteDifferenceExecute_NoAbs(a, b) ==
  LET v == OperationValidate(a, b)
  IN  IF v.status = "raised" THEN v ELSE Returned(DecValue(a - b, Scale))

AbsoluteDifferenceExecute(a, b) ==
  LET v == OperationValidate(a, b)
  IN  IF v.status = "raised" THEN v ELSE Returned(DecValue(Abs(a - b), Scale))

\* the subclass of test_register_valid_operation: execute returns a
NewOperationExecute(a, b) == Returned(DecValue(a, Scale))

\* validate_operands of an instance of class c
ValidateOutcome(c, a, b) ==
  CASE c = "Division" -> DivisionValidate(a, b)
    [] c = "Power" -> PowerValidate(a, b)
    [] c = "Root" -> RootValidate(a, b)
    [] c = "Modulus" -> ModulusValidate(a, b)
    [] c = "IntegerDivision" -> IntegerDivisionValidate(a, b)
    [] c = "Percentage" -> PercentageValidate(a, b)
    [] OTHER -> OperationValidate(a, b)

\* execute of an instance of class c
ExecuteOutcome(c, a, b) ==
  CASE c = "Addition" -> AdditionExecute(a, b)
    [] c = "Subtraction" -> SubtractionExecute(a, b)
    [] c = "Multiplication" -> MultiplicationExecute(a, b)
    [] c = "Division" -> DivisionExecute(a, b)
    [] c = "Power" -> PowerExecute(a, b)
    [] c = "Root" -> RootExecute(a, b)
    [] c = "Modulus" -> ModulusExecute(a, b)
    [] c = "IntegerDivision" -> IntegerDivisionExecute(a, b)
    [] c = "Percentage" -> PercentageExecute(a, b)
    [] c = "AbsoluteDifference" -> AbsoluteDifferenceExecute(a, b)
    [] c = "NewOperation" -> NewOperationExecute(a, b)

(***************************************************************************)
(* OperationFactory.                                                       *)
(***************************************************************************)
RegisterOutcome(name, c) ==
  IF ~IsSubclassOfOperation(c) THEN Raised("TypeError", MsgMustInherit)
  ELSE Returned(NoValue)

\* variant: the entry is stored before the class is checked
RegisterOperations_StoreFirst(ops, name, c) ==
  [k \in DOMAIN ops \cup {Lower(name)} |-> IF k = Lower(name) THEN c ELSE ops[k]]

\* variant: the entry is stored under the name as given
RegisterOperations_NoLower(ops, name, c) ==
  IF ~IsSubclassOfOperation(c) THEN ops
  ELSE [k \in DOMAIN ops \cup {name} |-> IF k = name THEN c ELSE ops[k]]

\* variant: the dictionary is replaced by the new entry
RegisterOperations_Replace(ops, name, c) ==
  IF ~IsSubclassOfOperation(c) THEN ops
  ELSE [k \in {Lower(name)} |-> c]

\* variant: the entry is stored under the lowercased name and under the name
\* as given
RegisterOperations_KeepsRawName(ops, name, c) ==
  IF ~IsSubclassOfOperation(c) THEN ops
  ELSE [k \in DOMAIN ops \cup {Lower(name), name} |->
          IF k \in {Lower(name), name} THEN c ELSE ops[k]]

RegisterOperations(ops, name, c) ==
  IF ~IsSubclassOfOperation(c) THEN ops
  ELSE [k \in DOMAIN ops \cup {Lower(name)} |->
          IF k = Lower(name) THEN c ELSE ops[k]]

\* variant: the message names the lowercased name
CreateOutcome_LowerInMessage(ops, name) ==
  IF Lower(name) \notin DOMAIN ops THEN Raised("ValueError", MsgUnknown(Lower(name)))
  ELSE IF IsAbstract(ops[Lower(name)]) THEN Raised("TypeError", MsgAbstract)
  ELSE ReturnedInstance(ops[Lower(name)])

\* variant: the lookup without lower()
CreateOutcome_NoLower(ops, name) ==
  IF name \notin DOMAIN ops THEN Raised("ValueError", MsgUnknown(name))
  ELSE IF IsAbstract(ops[name]) THEN Raised("TypeError", MsgAbstract)
  ELSE ReturnedInstance(ops[name])

\* dict.get on the lowercased name; every class is truthy; instantiating the
\* abstract base class raises TypeError
CreateOutcome(ops, name) ==
  IF Lower(name) \notin DOMAIN ops THEN Raised("ValueError", MsgUnknown(name))
  ELSE IF IsAbstract(ops[Lower(name)]) THEN Raised("TypeError", MsgAbstract)
  ELSE ReturnedInstance(ops[Lower(name)])

(***************************************************************************)
(* Inputs of the calls.                                                    *)
(***************************************************************************)
KeyNewOp == <<"n","e","w","_","o","p">>
KeyInvalidOp == <<"i","n","v","a","l","i","d","_","o","p">>

ApplyCase(key, S) == [i \in 1..Len(key) |-> IF i \in S THEN UpperChar(key[i]) ELSE key[i]]

\* the spellings of key with any of its first MaxCasePos letters in upper
\* case, and key.upper()
Spellings(key) ==
  {ApplyCase(key, S) : S \in SUBSET (1..Min(MaxCasePos, Len(key)))} \cup {Upper(key)}

CreateNames == UNION {Spellings(k) : k \in BuiltinKeys \cup {KeyNewOp, KeyInvalidOp}}

RegisterNames == Spellings(KeyNewOp) \cup Spellings(KeyAdd)

RegisterClasses ==
  {"NewOperation", "Operation", "InvalidOperation", "Subtraction", "Addition"}

(***************************************************************************)
(* The registry as a state machine: any sequence of register, create and   *)
(* execute calls.                                                          *)
(***************************************************************************)
Init ==
  /\ operations = InitOperations
  /\ call = NoCall
  /\ outcome = Pending

Register(name, c) ==
  /\ call' = CallRegister(name, c)
  /\ outcome' = RegisterOutcome(name, c)
  /\ operations' = RegisterOperations(operations, name, c)

Create(name) ==
  /\ call' = CallCreate(name)
  /\ outcome' = CreateOutcome(operations, name)
  /\ UNCHANGED operations

Execute(c, a, b) ==
  /\ call' = CallExecute(c, a, b)
  /\ outcome' = ExecuteOutcome(c, a, b)
  /\ UNCHANGED operations

Next ==
  \/ \E name \in RegisterNames, c \in RegisterClasses : Register(name, c)
  \/ \E name \in CreateNames : Create(name)
  \/ \E c \in ConcreteClasses, a \in SmallOperands, b \in SmallOperands : Execute(c, a, b)

Spec == Init /\ [][Next]_vars

(***************************************************************************)
(* execute as a function of the class and the operands: the inputs are     *)
(* drawn by the initial state and one step applies execute to them.        *)
(***************************************************************************)
InitExec ==
  /\ operations = InitOperations
  /\ call \in {CallExecute(c, a, b) : c \in ConcreteClasses, a \in Operands, b \in Operands}
  /\ outcome = Pending

RunExecute ==
  /\ call.op = "execute"
  /\ outcome = Pending
  /\ outcome' = ExecuteOutcome(call.cls, call.a, call.b)
  /\ UNCHANGED <<operations, call>>

NextExec == RunExecute

SpecExec == InitExec /\ [][NextExec]_vars

\* execute of the two float-based division operations on integer operands
\* beyond 2^MantBits, with divisors for which every float step is exact
WideOffsets == 0 .. MaxWide

WideDivisors == {s * d * Scale : s \in {0 - 1, 0, 1}, d \in {1, 2, 4}}

WideClasses == {"Modulus", "IntegerDivision"}

CallExecuteWide(c, j, b) ==
  [op |-> "execute_wide", name |-> << >>, cls |-> c, a |-> j, b |-> b]

ExecuteWideOutcome(c, j, b) ==
  IF c = "Modulus" THEN ModulusExecuteWide(j, b) ELSE IntegerDivisionExecuteWide(j, b)

InitWide ==
  /\ operations = InitOperations
  /\ call \in {CallExecuteWide(c, j, b) : c \in WideClasses, j \in WideOffsets,
                                          b \in WideDivisors}
  /\ outcome = Pending

RunExecuteWide ==
  /\ call.op = "execute_wide"
  /\ outcome = Pending
  /\ outcome' = ExecuteWideOutcome(call.cls, call.a, call.b)
  /\ UNCHANGED <<operations, call>>

NextWide == RunExecuteWide

SpecWide == InitWide /\ [][NextWide]_vars

ExecutedWide(c) == call.op = "execute_wide" /\ call.cls = c /\ outcome.status # "pending"

\* an execute call that has run
Executed(c) == call.op = "execute" /\ call.cls = c /\ outcome.status # "pending"

(***************************************************************************)
(* Properties.                                                             *)
(***************************************************************************)
ZeroDivisorClasses == {"Division", "Modulus", "IntegerDivision", "Percentage"}

\* re.search of a literal pattern in a message, word by word
Matches(pat, msg) ==
  \E i \in 1..(Len(msg) - Len(pat) + 1) : SubSeq(msg, i, i + Len(pat) - 1) = pat

\* the pattern of the zero_divisor cases of TestModulus, TestIntegerDivision
\* and TestPercentage
PatternCannotDivide == <<"Cannot", "divide", "by", "zero">>

\* floor(a / b) for integers a and b # 0
FloorQuot(a, b) == IF b > 0 THEN a \div b ELSE (0 - a) \div (0 - b)

\* name is key with some of its letters in upper case
IsSpellingOf(name, key) ==
  /\ Len(name) = Len(key)
  /\ \A i \in 1..Len(key) : name[i] = key[i] \/ name[i] = UpperChar(key[i])

C2_ZeroDivisorMatchesCannotDivide ==
  \A c \in {"Modulus", "IntegerDivision", "Percentage"} :
    (Executed(c) /\ call.b = 0) =>
      /\ outcome.status = "raised"
      /\ outcome.exc = "ValidationError"
      /\ Matches(PatternCannotDivide, outcome.msg)

\* C3: Power.execute(a, b) fails iff b < 0; it then raises
\* ValidationError("Negative exponents not supported"), and for b >= 0 it
\* returns a result.
C3_PowerFailsIffNegativeExponent ==
  Executed("Power") =>
    IF call.b < 0
    THEN outcome = Raised("ValidationError", MsgNegativeExponent)
    ELSE outcome.status = "returned" /\ outcome.value # NoValue

\* C4: Root.execute(a, b) fails iff a < 0 or b = 0, and returns a result in
\* every other case.
C4_RootFailsIffNegativeOrZeroDegree ==
  Executed("Root") =>
    IF call.a < 0 \/ call.b = 0
    THEN outcome.status = "raised"
    ELSE outcome.status = "returned" /\ outcome.value # NoValue

\* C5: execute of Addition, Subtraction, Multiplication and AbsoluteDifference
\* never fails and always returns a result, whatever the operands.
C5_UnvalidatedNeverFail ==
  \A c \in {"Addition", "Subtraction", "Multiplication", "AbsoluteDifference"} :
    Executed(c) => outcome.status = "returned" /\ outcome.value.kind = "dec"

C5_Witness ==
  /\ Executed("Multiplication") /\ call.a < 0 /\ call.b = 0
  /\ outcome.status = "returned"

\* C6: AbsoluteDifference.execute(a, b) is non-negative and is a - b when
\* a >= b and b - a otherwise.
C6_AbsoluteDifferenceValue ==
  Executed("AbsoluteDifference") =>
    /\ outcome.status = "returned"
    /\ outcome.value.kind = "dec"
    /\ outcome.value.den = Scale
    /\ outcome.value.num >= 0
    /\ outcome.value.num = (IF call.a >= call.b THEN call.a - call.b
                                                ELSE call.b - call.a)

C6_Witness ==
  /\ Executed("AbsoluteDifference") /\ call.a < call.b /\ call.a < 0
  /\ outcome.value.num > 0

\* C7: for b # 0, IntegerDivision.execute(a, b) is floor(a / b), the greatest
\* integer not above the quotient of the operands.
C7_IntegerDivisionIsFloor ==
  (Executed("IntegerDivision") /\ call.b # 0) =>
    /\ outcome.status = "returned"
    /\ outcome.value.kind = "bin"
    /\ FloatEqualsRatio(outcome.value.f, FloorQuot(call.a, call.b), 1)

\* C8: for b # 0, Modulus.execute(a, b) is the remainder of the floored
\* division, a - b * floor(a / b): zero or of the sign of b, and smaller than
\* b in absolute value.
C8_ModulusIsFlooredRemainder ==
  (Executed("Modulus") /\ call.b # 0) =>
    /\ outcome.status = "returned"
    /\ outcome.value.kind = "bin"
    /\ FloatEqualsRatio(outcome.value.f,
                        call.a - call.b * FloorQuot(call.a, call.b), Scale)
    /\ outcome.value.f.s \in {0, Sign(call.b)}
    /\ FloatCmpAbsRatio(outcome.value.f, call.b, Scale) < 0

\* C9: in the initial registry, create of any upper/lower-case spelling of a
\* built-in key returns an instance of the class of that key.
C9_CreateBuiltinAnyCase ==
  \A k \in BuiltinKeys :
    (call.op = "create" /\ operations = InitOperations /\ IsSpellingOf(call.name, k))
      => outcome = ReturnedInstance(BuiltinClassOf(k))

C9_Witness ==
  /\ call.op = "create" /\ operations = InitOperations
  /\ call.name = Upper(KeyIntegerDivision)
  /\ outcome.instance = "IntegerDivision"

\* C10: a create of any case variant of k that directly follows a successful
\* register(k, X) returns an instance of X, for every X register accepts.
C10_RegisterThenCreate ==
  [][(/\ call.op = "register" /\ outcome.status = "returned"
      /\ call'.op = "create"
      /\ \E k \in {KeyNewOp, KeyAdd} :
           IsSpellingOf(call.name, k) /\ IsSpellingOf(call'.name, k))
     => outcome' = ReturnedInstance(call.cls)]_vars

\* the name contains no upper-case letter
IsLowercase(name) ==
  \A i \in 1..Len(name) : \A j \in 1..Len(UpperLetters) : name[i] # UpperLetters[j]

\* x and y differ at most by the case of their letters
SameIgnoringCase(x, y) ==
  /\ Len(x) = Len(y)
  /\ \A i \in 1..Len(x) :
       x[i] = y[i] \/ UpperChar(x[i]) = y[i] \/ x[i] = UpperChar(y[i])

\* the lowercase form of name is a key of ops
HasMapping(ops, name) ==
  \E k \in DOMAIN ops : IsLowercase(k) /\ SameIgnoringCase(name, k)

\* C11: create(k) for a key whose lowercase form has no mapping raises the
\* unknown-operation error (ValueError) with a message that contains k as
\* supplied, returns no instance and leaves the registry unchanged.
C11_CreateUnknownKey ==
  [][(call'.op = "create" /\ ~HasMapping(operations, call'.name)) =>
       /\ outcome'.status = "raised"
       /\ outcome'.exc = "ValueError"
       /\ Matches(<<"Unknown", "operation:">>, outcome'.msg)
       /\ Matches(call'.name, outcome'.msg)
       /\ outcome'.instance = ""
       /\ operations' = operations]_vars

C11_Witness ==
  /\ call.op = "create" /\ call.name = Upper(KeyInvalidOp)
  /\ outcome.exc = "ValueError"
  /\ Matches(Upper(KeyInvalidOp), outcome.msg)

\* C12: register(k, C) with a class C that is not a subclass of Operation
\* raises TypeError and leaves the registry exactly as it was.
C12_RegisterRejectsNonOperation ==
  [][(call'.op = "register" /\ ~IsSubclassOfOperation(call'.cls)) =>
       /\ outcome'.status = "raised"
       /\ outcome'.exc = "TypeError"
       /\ outcome'.msg = MsgMustInherit
       /\ operations' = operations]_vars

C12_Witness ==
  /\ call.op = "register" /\ call.cls = "InvalidOperation"
  /\ call.name = Upper(KeyAdd)
  /\ outcome.exc = "TypeError"
  /\ operations[KeyAdd] = "Addition"

\* C13: every key stored in the registry is lowercase and no two stored keys
\* differ only by letter case.
C13_KeysLowercaseAndUnique ==
  /\ \A k \in DOMAIN operations : IsLowercase(k)
  /\ \A k1, k2 \in DOMAIN operations : SameIgnoringCase(k1, k2) => k1 = k2

C13_Witness ==
  /\ call.op = "register" /\ call.name = Upper(KeyNewOp)
  /\ outcome.status = "returned"
  /\ KeyNewOp \in DOMAIN operations

\* C14 as stated: entries are only added, so the class a key maps to is the
\* same in every later state.
C14_EntriesNeverChange ==
  [][\A k \in DOMAIN operations :
       k \in DOMAIN operations' /\ operations'[k] = operations[k]]_vars

\* C14 as amended: entries are never removed, and the class of a key changes
\* only by a successful register of a name that lowercases to that key, which
\* then maps to the class just registered.
C14_EntriesKeptOrOverwritten ==
  [][\A k \in DOMAIN operations :
       /\ k \in DOMAIN operations'
       /\ operations'[k] # operations[k] =>
            /\ call'.op = "register"
            /\ outcome'.status = "returned"
            /\ SameIgnoringCase(call'.name, k)
            /\ operations'[k] = call'.cls]_vars

C14_Witness ==
  /\ call.op = "register" /\ call.name = KeyAdd /\ call.cls = "Subtraction"
  /\ outcome.status = "returned"
  /\ operations[KeyAdd] = "Subtraction"
  /\ operations[KeySubtract] = "Subtraction"

\* C15: a successful register(k, X) adds or overwrites exactly the entry at
\* the lowercased k and leaves every other entry unchanged; create and
\* execute leave the whole registry unchanged.
C15_RegistryFrame ==
  [][/\ (call'.op = "register" /\ outcome'.status = "returned") =>
          \E key \in DOMAIN operations' :
            /\ IsLowercase(key) /\ SameIgnoringCase(call'.name, key)
            /\ DOMAIN operations' = DOMAIN operations \cup {key}
            /\ operations'[key] = call'.cls
            /\ \A k \in DOMAIN operations \ {key} : operations'[k] = operations[k]
     /\ call'.op \in {"create", "execute"} => operations' = operations]_vars

C15_Witness ==
  /\ call.op = "register" /\ call.name = ApplyCase(KeyNewOp, {1})
  /\ call.cls = "NewOperation"
  /\ outcome.status = "returned"
  /\ operations[KeyNewOp] = "NewOperation"
  /\ \A k \in BuiltinKeys : operations[k] = BuiltinClassOf(k)

\* C16: execute of each built-in variant returns a result only when
\* validate_operands passes on the same operands, and when validate_operands
\* raises, execute raises that same ValidationError and produces no result.
C16_ValidationPrecedesExecution ==
  \A c \in BuiltinClasses :
    Executed(c) =>
      LET v == ValidateOutcome(c, call.a, call.b)
      IN  /\ outcome.status = "returned" =>
               v.status = "passed" /\ outcome.value # NoValue
          /\ v.status = "raised" =>
               /\ outcome = v
               /\ outcome.exc = "ValidationError"
               /\ outcome.value = NoValue

C16_Witness ==
  /\ Executed("Division") /\ call.a > 0 /\ call.b = 0
  /\ outcome = DivisionValidate(call.a, call.b)
  /\ outcome.status = "raised"

\* C17: Root.execute(a, b) with a < 0 and b = 0 reports "Cannot calculate
\* root of negative number"; "Zero root is undefined" is reported exactly
\* when a >= 0 and b = 0.
C17_RootErrorPrecedence ==
  Executed("Root") =>
    /\ (call.a < 0 /\ call.b = 0) =>
         outcome = Raised("ValidationError", MsgNegativeRoot)
    /\ (outcome.status = "raised" /\ outcome.msg = MsgZeroRoot)
         <=> (call.a >= 0 /\ call.b = 0)

C17_Witness ==
  /\ Executed("Root") /\ call.a < 0 /\ call.b = 0
  /\ outcome.msg = MsgNegativeRoot


\* Scale * 2^g * (2^MantBits + j) = 2^g * (b * q + Scale * r) in exact
\* arithmetic, for the scaled divisor b and the float results q and r, where
\* 2^g clears the fractions of q and r; negative terms are moved across
DivisionIdentityWide(j, b, q, r) ==
  LET g == 0 - Min(Min(q.e, r.e), 0)
      lhs == BigMulSmall(BigShl(WideInt(j), g), Scale)
      bq == BigMulSmall(BigShl(q.m, q.e + g), Abs(b))
      sr == BigMulSmall(BigShl(r.m, r.e + g), Scale)
      sq == Sign(b) * q.s
      left == BigAdd(lhs, BigAdd(IF sq < 0 THEN bq ELSE << >>,
                                 IF r.s < 0 THEN sr ELSE << >>))
      right == BigAdd(IF sq > 0 THEN bq ELSE << >>, IF r.s > 0 THEN sr ELSE << >>)
  IN  BigCmp(left, right) = 0

\* C18: for integer operands a and every b # 0, a equals
\* b * IntegerDivision.execute(a, b) + Modulus.execute(a, b); stated for the
\* integers a = 2^MantBits + j and the integer divisors of WideDivisors
C18_DivisionIdentity ==
  \A c \in WideClasses :
    (ExecutedWide(c) /\ call.b # 0) =>
      LET q == IntegerDivisionExecuteWide(call.a, call.b)
          r == ModulusExecuteWide(call.a, call.b)
      IN  /\ outcome = ExecuteWideOutcome(c, call.a, call.b)
          /\ q.status = "returned"
          /\ r.status = "returned"
          /\ DivisionIdentityWide(call.a, call.b, q.value.f, r.value.f)
====
